---- MODULE Spec2Model ----
(***************************************************************************)
(* A model of dcpu.py: the DCPU class (memory, registers, pc, sp, o), its  *)
(* value-code resolver _setval/_getval and its instruction cycle tick.     *)
(*                                                                         *)
(* A CPU is a record [memory, registers, pc, sp, o].  memory stands for    *)
(* the 65536-word array: a function whose domain is the set of addresses   *)
(* holding a word other than _MEM_DEFAULT, every other address reads as    *)
(* _MEM_DEFAULT.  Every method of the class is an operator from a CPU      *)
(* record to an outcome [cpu, ret, fault]: the CPU as the method leaves    *)
(* it, the value it returns (None when it returns nothing) and whether it  *)
(* ended by raising an exception.  State changed before an exception is    *)
(* raised stays changed, as in Python.                                     *)
(***************************************************************************)
EXTENDS Integers, FiniteSets, Sequences, TLC

VARIABLES memory, registers, pc, sp, o, last, calls, ticks, cpus, heap

vars == <<memory, registers, pc, sp, o, last, calls, ticks, cpus, heap>>

(***************************************************************************)
(* Bounds of the model.                                                    *)
(***************************************************************************)
\* Resolver calls of the host in all, those of them before a run, and ticks.
MaxCalls == 3
MaxPresets == 1
MaxTicks == 2

\* The instances the driver constructs (500 at line 357).
NumCpus == 2

(***************************************************************************)
(* DCPU_OpCodes                                                            *)
(***************************************************************************)
NOP == 0
SET == 1
ADD == 2
SUB == 3
MUL == 4
DIV == 5
MOD == 6
SHL == 7
SHR == 8
AND == 9
BOR == 10
XOR == 11
IFE == 12
IFN == 13
IFG == 14
IFB == 15

(***************************************************************************)
(* DCPU_Values                                                             *)
(***************************************************************************)
REG == 0..7
REG_MEM == 8..15
MEM_OFFSET_REG == 16..23
POP == 24
PEEK == 25
PUSH == 26
SP == 27
PC == 28
O == 29
MEM == 30
MEM_LIT == 31
NUM_LIT == 32..63

_OP_PORTION == 15
_AV_PORTION == 1008
_BV_PORTION == 64512
_NUM_REGISTERS == 8
_MAX_VAL == 65535

(***************************************************************************)
(* DCPU_Options                                                            *)
(***************************************************************************)
_MEMORY_SIZE == 65536
_MEM_DEFAULT == 0
_REG_DEFAULT == 0
_PC_DEFAULT == 0
_SP_DEFAULT == 0

\* Python's None, as the value of f in _setval and of a missing return value.
None == -1

Word == 0.._MAX_VAL

(***************************************************************************)
(* Bitwise operators of Python on non-negative integers, bit by bit.       *)
(***************************************************************************)
RECURSIVE BitAnd(_, _)
BitAnd(x, y) ==
    IF x = 0 \/ y = 0 THEN 0
    ELSE (IF x % 2 = 1 /\ y % 2 = 1 THEN 1 ELSE 0) + 2 * BitAnd(x \div 2, y \div 2)

RECURSIVE BitOr(_, _)
BitOr(x, y) ==
    IF x = 0 THEN y
    ELSE IF y = 0 THEN x
    ELSE (IF x % 2 = 1 \/ y % 2 = 1 THEN 1 ELSE 0) + 2 * BitOr(x \div 2, y \div 2)

RECURSIVE BitXor(_, _)
BitXor(x, y) ==
    IF x = 0 THEN y
    ELSE IF y = 0 THEN x
    ELSE (IF x % 2 # y % 2 THEN 1 ELSE 0) + 2 * BitXor(x \div 2, y \div 2)

RECURSIVE Pow2(_)
Pow2(n) == IF n = 0 THEN 1 ELSE 2 * Pow2(n - 1)

(***************************************************************************)
(* The memory array: array.array('H', [default] * size).                   *)
(***************************************************************************)
Buffer == [x \in {} |-> _MEM_DEFAULT]

MemRead(m, addr) == IF addr \in DOMAIN m THEN m[addr] ELSE _MEM_DEFAULT

MemWrite(m, addr, v) ==
    IF v = _MEM_DEFAULT
    THEN [x \in (DOMAIN m) \ {addr} |-> m[x]]
    ELSE [x \in (DOMAIN m) \cup {addr} |-> IF x = addr THEN v ELSE m[x]]

\* _init_cpu: the CPU a constructor call leaves.
InitCpu ==
    [memory    |-> Buffer,
     registers |-> [r \in 0..(_NUM_REGISTERS - 1) |-> _REG_DEFAULT],
     pc        |-> _PC_DEFAULT,
     sp        |-> _SP_DEFAULT,
     o         |-> FALSE]

\* What a method call leaves: the CPU, the returned value, raised or not.
Outcome(c, ret, fault) == [cpu |-> c, ret |-> ret, fault |-> fault]

\* _has_overflown
HasOverflown(val) == val < 0 \/ val > _MAX_VAL

\* Overflown without the mask of line 148: returns val as it is.
OverflownUnmasked(c, val) ==
    Outcome([c EXCEPT !.o = HasOverflown(val)], val, FALSE)

\* _overflown: sets o whatever setO is, returns val & _MAX_VAL.
Overflown(c, val) ==
    Outcome([c EXCEPT !.o = HasOverflown(val)], val % (_MAX_VAL + 1), FALSE)

\* A pc increment that wraps and leaves o alone.
IncPCKeepsO(c) == [c EXCEPT !.pc = (c.pc + 1) % (_MAX_VAL + 1)]

\* _incPC, _incSP, _decSP
IncPC(c) == LET r == Overflown(c, c.pc + 1) IN [r.cpu EXCEPT !.pc = r.ret]

IncSP(c) == LET r == Overflown(c, c.sp + 1) IN [r.cpu EXCEPT !.sp = r.ret]

DecSP(c) == LET r == Overflown(c, c.sp - 1) IN [r.cpu EXCEPT !.sp = r.ret]

(***************************************************************************)
(* _setval(vc, f), one operator per branch of its if/elif chain.  f = None *)
(* is a read.  A write returns None, except through POP, where the value   *)
(* code itself comes back.                                                 *)
(***************************************************************************)
SetvalReg(c, vc, f) ==
    IF f = None
    THEN Outcome(c, c.registers[vc], FALSE)
    ELSE Outcome([c EXCEPT !.registers[vc] = f], None, FALSE)

\* Line 220 rebinds vc; lines 222 and 224 index by reg, a local that is
\* bound only in the next branch: UnboundLocalError, on read and on write.
SetvalRegMem(c, vc, f) == Outcome(c, None, TRUE)

SetvalMemOffsetReg(c, vc, f) ==
    LET c1       == IncPC(c)
        next_mem == MemRead(c1.memory, c1.pc)
        reg      == c1.registers[vc - 16]
        r        == Overflown(c1, reg + next_mem)
    IN  IF f = None
        THEN Outcome(r.cpu, MemRead(r.cpu.memory, r.ret), FALSE)
        ELSE Outcome([r.cpu EXCEPT !.memory = MemWrite(@, r.ret, f)], None, FALSE)

SetvalPop(c, f) ==
    IF f = None
    THEN Outcome(IncSP(c), MemRead(c.memory, c.sp), FALSE)
    ELSE Outcome(IncSP([c EXCEPT !.memory = MemWrite(@, c.sp, f)]), POP, FALSE)

SetvalPeek(c, f) ==
    IF f = None
    THEN Outcome(c, MemRead(c.memory, c.sp), FALSE)
    ELSE Outcome([c EXCEPT !.memory = MemWrite(@, c.sp, f)], None, FALSE)

\* SetvalPush with the two steps exchanged: stores at sp, then decrements.
SetvalPushWritesFirst(c, f) ==
    IF f = None
    THEN Outcome(DecSP(c), MemRead(c.memory, c.sp), FALSE)
    ELSE Outcome(DecSP([c EXCEPT !.memory = MemWrite(@, c.sp, f)]), None, FALSE)

SetvalPush(c, f) ==
    LET c1 == DecSP(c)
    IN  IF f = None
        THEN Outcome(c1, MemRead(c1.memory, c1.sp), FALSE)
        ELSE Outcome([c1 EXCEPT !.memory = MemWrite(@, c1.sp, f)], None, FALSE)

SetvalSP(c, f) ==
    IF f = None
    THEN Outcome(c, c.sp, FALSE)
    ELSE Outcome([c EXCEPT !.sp = f], None, FALSE)

SetvalPC(c, f) ==
    IF f = None
    THEN Outcome(c, c.pc, FALSE)
    ELSE Outcome([c EXCEPT !.pc = f], None, FALSE)

SetvalO(c, f) ==
    IF f = None
    THEN Outcome(c, IF c.o THEN 1 ELSE 0, FALSE)
    ELSE Outcome([c EXCEPT !.o = (f # 0)], None, FALSE)

SetvalMem(c, f) ==
    LET c1   == IncPC(c)
        addr == MemRead(c1.memory, c1.pc)
    IN  IF f = None
        THEN Outcome(c1, MemRead(c1.memory, addr), FALSE)
        ELSE Outcome([c1 EXCEPT !.memory = MemWrite(@, addr, f)], None, FALSE)

\* SetvalMemLit without the early return of a write: stores f in the next word.
SetvalMemLitStores(c, f) ==
    LET c1 == IncPC(c)
    IN  IF f = None
        THEN Outcome(c1, MemRead(c1.memory, c1.pc), FALSE)
        ELSE Outcome([c1 EXCEPT !.memory = MemWrite(@, c1.pc, f)], None, FALSE)

SetvalMemLit(c, f) ==
    IF f # None
    THEN Outcome(c, None, FALSE)
    ELSE LET c1 == IncPC(c) IN Outcome(c1, MemRead(c1.memory, c1.pc), FALSE)

\* Line 289 names NUM_LIT without self: NameError for every vc that reaches it,
\* so neither the literal branch nor the _abort of line 295 is ever entered.
SetvalNumLit(c, vc, f) == Outcome(c, None, TRUE)

Setval(c, vc, f) ==
    IF vc \in REG THEN SetvalReg(c, vc, f)
    ELSE IF vc \in REG_MEM THEN SetvalRegMem(c, vc, f)
    ELSE IF vc \in MEM_OFFSET_REG THEN SetvalMemOffsetReg(c, vc, f)
    ELSE IF vc = POP THEN SetvalPop(c, f)
    ELSE IF vc = PEEK THEN SetvalPeek(c, f)
    ELSE IF vc = PUSH THEN SetvalPush(c, f)
    ELSE IF vc = SP THEN SetvalSP(c, f)
    ELSE IF vc = PC THEN SetvalPC(c, f)
    ELSE IF vc = O THEN SetvalO(c, f)
    ELSE IF vc = MEM THEN SetvalMem(c, f)
    ELSE IF vc = MEM_LIT THEN SetvalMemLit(c, f)
    ELSE SetvalNumLit(c, vc, f)

\* _getval
Getval(c, vc) == Setval(c, vc, None)

(***************************************************************************)
(* _tick(op, a, b): the opcode applied to the two operand values.  ret is  *)
(* the value to store in a, None when a is not to be modified.             *)
(*                                                                         *)
(* Products and shifts are computed in pieces that stay below 2^31; the    *)
(* flag and the low 16 bits are those of Python's unbounded integers.      *)
(***************************************************************************)
MulExceeds(a, b) == a # 0 /\ b > _MAX_VAL \div a

MulLow(a, b) ==
    ((a % 256) * b + 256 * (((a \div 256) * b) % 256)) % (_MAX_VAL + 1)

TickSet(c, a, b) == Overflown(c, a)

TickAdd(c, a, b) == Overflown(c, a + b)

TickSub(c, a, b) == Overflown(c, a - b)

TickMul(c, a, b) == Outcome([c EXCEPT !.o = MulExceeds(a, b)], MulLow(a, b), FALSE)

\* a /= b.  b = 0 raises ZeroDivisionError.  Under Python 2 the quotient is
\* an int; under Python 3 it is a float, _overflown sets o from it and then
\* raises TypeError at val & _MAX_VAL.
TickDiv(c, a, b, ver) ==
    IF b = 0 THEN Outcome(c, None, TRUE)
    ELSE IF ver = 2 THEN Overflown(c, a \div b)
    ELSE Outcome([c EXCEPT !.o = FALSE], None, TRUE)

\* a %= b.  b = 0 raises ZeroDivisionError.
TickMod(c, a, b) ==
    IF b = 0 THEN Outcome(c, None, TRUE) ELSE Overflown(c, a % b)

TickShl(c, a, b) ==
    IF b >= 16
    THEN Outcome([c EXCEPT !.o = (a # 0)], 0, FALSE)
    ELSE Overflown(c, a * Pow2(b))

TickShr(c, a, b) == Overflown(c, IF b >= 16 THEN 0 ELSE a \div Pow2(b))

\* TickIfe with the test inverted: skips when a = b.
TickIfeSkipsEqual(c, a, b) ==
    IF a = b THEN Outcome(IncPC(c), None, FALSE) ELSE Outcome(c, None, FALSE)

TickIfe(c, a, b) ==
    IF a # b THEN Outcome(IncPC(c), None, FALSE) ELSE Outcome(c, None, FALSE)

\* Line 186 names IFN without self: NameError for every op that is not IFE,
\* so the IFN, IFG and IFB branches and the _abort are never entered.
TickIfnIfgIfb(c, op, a, b) == Outcome(c, None, TRUE)

TickOp(c, op, a, b, ver) ==
    IF op = NOP THEN Outcome(c, None, FALSE)
    ELSE IF op = SET THEN TickSet(c, a, b)
    ELSE IF op = ADD THEN TickAdd(c, a, b)
    ELSE IF op = SUB THEN TickSub(c, a, b)
    ELSE IF op = MUL THEN TickMul(c, a, b)
    ELSE IF op = DIV THEN TickDiv(c, a, b, ver)
    ELSE IF op = MOD THEN TickMod(c, a, b)
    ELSE IF op = SHL THEN TickShl(c, a, b)
    ELSE IF op = SHR THEN TickShr(c, a, b)
    ELSE IF op = AND THEN Outcome(c, BitAnd(a, b), FALSE)
    ELSE IF op = BOR THEN Outcome(c, BitOr(a, b), FALSE)
    ELSE IF op = XOR THEN Outcome(c, BitXor(a, b), FALSE)
    ELSE IF op = IFE THEN TickIfe(c, a, b)
    ELSE TickIfnIfgIfb(c, op, a, b)

(***************************************************************************)
(* tick(): one instruction.  The result records, next to the CPU it leaves *)
(* and whether it raised, the locals of the call: op, the value codes a    *)
(* and b handed to _getval, aval, bval, the value fval handed to _setval,  *)
(* and pcres, the pc once both operands were read.  A local the call never *)
(* bound is None.                                                          *)
(***************************************************************************)
TickResult(c, fault, op, a, b, aval, bval, fval, pcres) ==
    [cpu |-> c, fault |-> fault, op |-> op, a |-> a, b |-> b,
     aval |-> aval, bval |-> bval, fval |-> fval, pcres |-> pcres]

\* Line 330: the reserved opcode returns before line 346 increases pc.
TickNop(c, op) == TickResult(c, FALSE, op, None, None, None, None, None, None)

\* Lines 340-346: apply the opcode, store, increase pc.
TickExecute(c, op, a, b, aval, bval, ver) ==
    LET rt == TickOp(c, op, aval, bval, ver)
    IN  IF rt.fault
        THEN TickResult(rt.cpu, TRUE, op, a, b, aval, bval, None, c.pc)
        ELSE IF rt.ret = None
        THEN TickResult(IncPC(rt.cpu), FALSE, op, a, b, aval, bval, None, c.pc)
        ELSE LET rf == Overflown(rt.cpu, rt.ret)
                 rs == Setval(rf.cpu, a, rf.ret)
             IN  IF rs.fault
                 THEN TickResult(rs.cpu, TRUE, op, a, b, aval, bval, rf.ret, c.pc)
                 ELSE TickResult(IncPC(rs.cpu), FALSE, op, a, b, aval, bval, rf.ret, c.pc)

Tick(c, ver) ==
    LET v  == MemRead(c.memory, c.pc)
        op == BitAnd(v, _OP_PORTION)
        a  == BitAnd(v, _AV_PORTION)
        b  == BitAnd(v, _BV_PORTION)
    IN  IF op = NOP THEN TickNop(c, op)
        ELSE LET ra == Getval(c, a)
             IN  IF ra.fault
                 THEN TickResult(ra.cpu, TRUE, op, a, b, None, None, None, None)
                 ELSE LET rb == Getval(ra.cpu, b)
                      IN  IF rb.fault
                          THEN TickResult(rb.cpu, TRUE, op, a, b, ra.ret, None, None, None)
                          ELSE TickExecute(rb.cpu, op, a, b, ra.ret, rb.ret, ver)

(***************************************************************************)
(* The state machine.  One CPU (memory, registers, pc, sp, o) and its      *)
(* host, which stores words in the memory array, calls the resolver and    *)
(* calls tick.  last describes the latest of these calls, with pc, sp and  *)
(* o as the call found them.  The host arranges before it runs: it stores  *)
(* words before any call, and calls the resolver before the first tick.    *)
(***************************************************************************)
Self == [memory |-> memory, registers |-> registers, pc |-> pc, sp |-> sp, o |-> o]

Becomes(c) ==
    /\ memory' = c.memory
    /\ registers' = c.registers
    /\ pc' = c.pc
    /\ sp' = c.sp
    /\ o' = c.o

\* An instruction word from its three fields.
Encode(op, a, b) == op + 16 * a + 1024 * b

\* The interpreters the module says it runs under.
PythonVersions == {2, 3}

\* Where the host stores instruction words, and which: every opcode on
\* register A twice, seven opcodes on [next word + A] and A, and words whose
\* a or b field is not 0.
ProgAddrs == {0, 65535}

ProgWords ==
    {Encode(op, 0, 0) : op \in 0..15}
        \cup {Encode(op, 1, 0) : op \in {SET, ADD, SUB, DIV, MOD, IFE, IFN}}
        \cup {Encode(SET, 2, 0), Encode(SET, 0, 1), Encode(SET, 0, 37), 65535}
        \cup {Encode(SET, MEM, MEM_LIT)}

\* Where the host stores the words after the instruction at 0, and which.
DataAddrs == {1, 2}

DataWords == {0, 1, 2, 65535}

\* The arguments of the host's resolver calls: a value code of every branch
\* of _setval, and the values it writes.
CallCodes == {0, 7, 8, 16, 24, 25, 26, 27, 28, 29, 30, 31, 32, 63}

CallValues == {0, 1, 65535}

\* The value codes through which the host presets a CPU it is about to tick.
PresetCodes == {0, PC}

PresetValues == {0, 1, 65535}

(***************************************************************************)
(* Several instances, as the driver keeps them in its list cpus.  An       *)
(* instance holds pc, sp and o itself and refers to two objects of the     *)
(* heap, its memory array and its registers list, which _setval changes in *)
(* place; heap maps each reference to the object's contents.               *)
(***************************************************************************)
NoObjects == [ref \in {} |-> Buffer]

HeapPut(h, ref, contents) ==
    [x \in (DOMAIN h) \cup {ref} |-> IF x = ref THEN contents ELSE h[x]]

\* A buffer kept by the class and handed to every instance.
BufferRefShared(h) == 0

\* Line 122: array.array(...) is a new object at every call.
BufferRef(h) == Cardinality(DOMAIN h)

\* Line 130: [default] * n is a new list at every evaluation.
ListRef(h) == Cardinality(DOMAIN h)

\* DCPU(): __init__ and _init_cpu on a new instance.
NewCpu(h) ==
    LET mref == BufferRef(h)
        h1   == HeapPut(h, mref, InitCpu.memory)
        rref == ListRef(h1)
        h2   == HeapPut(h1, rref, InitCpu.registers)
    IN  [heap |-> h2,
         cpu  |-> [memory |-> mref, registers |-> rref,
                   pc |-> InitCpu.pc, sp |-> InitCpu.sp, o |-> InitCpu.o]]

\* Line 357: the list of the first n instances and the heap they leave.
RECURSIVE Construct(_)
Construct(n) ==
    IF n = 0 THEN [cpus |-> << >>, heap |-> NoObjects]
    ELSE LET before == Construct(n - 1)
             new    == NewCpu(before.heap)
         IN  [cpus |-> Append(before.cpus, new.cpu), heap |-> new.heap]

Instances == 1..NumCpus

\* Instance d as the methods see it: its fields, the two objects followed.
View(d, h) ==
    [memory |-> h[d.memory], registers |-> h[d.registers],
     pc |-> d.pc, sp |-> d.sp, o |-> d.o]

\* Instance i once a method has left it as the CPU c: the array and the list
\* changed in place, pc, sp and o assigned.
Stored(i, c) ==
    /\ heap' = HeapPut(HeapPut(heap, cpus[i].memory, c.memory),
                       cpus[i].registers, c.registers)
    /\ cpus' = [cpus EXCEPT ![i] = [@ EXCEPT !.pc = c.pc, !.sp = c.sp, !.o = c.o]]

Called(call, fault, ret, vc, f, t) ==
    [call |-> call, fault |-> fault, ret |-> ret, vc |-> vc, f |-> f,
     op |-> t.op, a |-> t.a, b |-> t.b, aval |-> t.aval, bval |-> t.bval,
     fval |-> t.fval, pcres |-> t.pcres, pc0 |-> pc, sp0 |-> sp, o0 |-> o]

NoTick == TickResult(InitCpu, FALSE, None, None, None, None, None, None, None)

Init ==
    /\ memory = InitCpu.memory
    /\ registers = InitCpu.registers
    /\ pc = InitCpu.pc
    /\ sp = InitCpu.sp
    /\ o = InitCpu.o
    /\ last = [Called("new", FALSE, None, None, None, NoTick) EXCEPT
                  !.pc0 = _PC_DEFAULT, !.sp0 = _SP_DEFAULT, !.o0 = FALSE]
    /\ calls = 0
    /\ ticks = 0
    /\ cpus = << >>
    /\ heap = NoObjects

Load(addr, w) ==
    /\ calls = 0
    /\ ticks = 0
    /\ memory' = MemWrite(memory, addr, w)
    /\ last' = Called("load", FALSE, None, None, None, NoTick)
    /\ UNCHANGED <<registers, pc, sp, o, calls, ticks, cpus, heap>>

SetvalCall(vc, f) ==
    /\ calls < MaxCalls
    /\ ticks = 0
    /\ calls' = calls + 1
    /\ LET r == Setval(Self, vc, f)
       IN  /\ Becomes(r.cpu)
           /\ last' = Called("setval", r.fault, r.ret, vc, f, NoTick)
    /\ UNCHANGED <<ticks, cpus, heap>>

GetvalCall(vc) ==
    /\ calls < MaxCalls
    /\ ticks = 0
    /\ calls' = calls + 1
    /\ LET r == Getval(Self, vc)
       IN  /\ Becomes(r.cpu)
           /\ last' = Called("getval", r.fault, r.ret, vc, None, NoTick)
    /\ UNCHANGED <<ticks, cpus, heap>>

TickCall(ver) ==
    /\ ticks < MaxTicks
    /\ ticks' = ticks + 1
    /\ LET t == Tick(Self, ver)
       IN  /\ Becomes(t.cpu)
           /\ last' = Called("tick", t.fault, None, None, None, t)
    /\ UNCHANGED <<calls, cpus, heap>>

\* A host that loads a program, presets register A and pc, and ticks.
Next ==
    \/ \E addr \in ProgAddrs, w \in ProgWords : Load(addr, w)
    \/ \E addr \in DataAddrs, w \in DataWords : Load(addr, w)
    \/ \E vc \in PresetCodes, f \in PresetValues : calls < MaxPresets /\ SetvalCall(vc, f)
    \/ \E ver \in PythonVersions : TickCall(ver)

Spec == Init /\ [][Next]_vars

\* A host that calls the resolver alone, on a CPU as constructed.
NextResolver ==
    \/ \E vc \in CallCodes, f \in CallValues : SetvalCall(vc, f)
    \/ \E vc \in CallCodes : GetvalCall(vc)

SpecResolver == Init /\ [][NextResolver]_vars

\* The words the driver's host stores in an instance, and where.
DriverAddrs == {0, 1}

DriverWords == {Encode(SET, 0, 0), Encode(ADD, 0, 0), Encode(SET, 1, 0), Encode(IFE, 1, 0)}

InitDriver ==
    /\ memory = InitCpu.memory
    /\ registers = InitCpu.registers
    /\ pc = InitCpu.pc
    /\ sp = InitCpu.sp
    /\ o = InitCpu.o
    /\ last = [Called("new", FALSE, None, None, None, NoTick) EXCEPT
                  !.pc0 = _PC_DEFAULT, !.sp0 = _SP_DEFAULT, !.o0 = FALSE]
    /\ calls = 0
    /\ ticks = 0
    /\ cpus = Construct(NumCpus).cpus
    /\ heap = Construct(NumCpus).heap

DriverLoad(i, addr, w) ==
    /\ ticks = 0
    /\ heap' = HeapPut(heap, cpus[i].memory, MemWrite(heap[cpus[i].memory], addr, w))
    /\ UNCHANGED <<memory, registers, pc, sp, o, last, calls, ticks, cpus>>

\* Line 361: d.tick() on one instance of the list.
DriverTick(i, ver) ==
    /\ ticks < MaxTicks
    /\ ticks' = ticks + 1
    /\ Stored(i, Tick(View(cpus[i], heap), ver).cpu)
    /\ UNCHANGED <<memory, registers, pc, sp, o, last, calls>>

\* The driver: instances constructed, loaded, and ticked in any order.
NextDriver ==
    \/ \E i \in Instances, addr \in DriverAddrs, w \in DriverWords : DriverLoad(i, addr, w)
    \/ \E i \in Instances, ver \in PythonVersions : DriverTick(i, ver)

SpecDriver == InitDriver /\ [][NextDriver]_vars

(***************************************************************************)
(* Properties.  An action formula speaks of one call of the host: last'    *)
(* describes the call, the unprimed variables are the CPU before it and    *)
(* the primed ones the CPU after it.                                       *)
(***************************************************************************)
Wrap(n) == n % (_MAX_VAL + 1)

Ticked(op) == last.call = "tick" /\ last.op = op

\* Both operands of the tick were read, so the opcode was applied.
Applied == last.call = "tick" /\ last.bval # None

\* C1: a tick on a word with opcode 0 does not fault, leaves registers,
\* memory, sp and o as they were and sets pc to (pc + 1) mod 65536; so n
\* ticks of a fresh CPU over all-zero memory leave pc = n mod 65536.
C1_ReservedAdvancesPc ==
    [][(last'.call = "tick" /\ last'.op = NOP) =>
           /\ ~last'.fault
           /\ registers' = registers
           /\ memory' = memory
           /\ sp' = sp
           /\ o' = o
           /\ pc' = Wrap(pc + 1)
           /\ (memory' = Buffer /\ calls' = 0 => pc' = Wrap(ticks'))]_vars

\* C2: a SET tick stores in a the value read from b; with memory[0] =
\* SET register 0, literal 5 on a fresh CPU, one tick leaves register 0 = 5
\* and pc = 1.
C2_SetStoresB ==
    /\ Ticked(SET) /\ ~last.fault => last.fval = last.bval
    /\ (/\ Ticked(SET)
        /\ ticks = 1
        /\ calls = 0
        /\ memory = MemWrite(Buffer, 0, Encode(SET, 0, 37)))
           => ~last.fault /\ registers[0] = 5 /\ pc = 1

\* C3: after an ADD tick, o is true exactly when a + b > 65535, and the value
\* stored in a is (a + b) mod 65536.
C3_AddOverflow ==
    Ticked(ADD) /\ ~last.fault =>
        /\ o = (last.aval + last.bval > _MAX_VAL)
        /\ last.fval = Wrap(last.aval + last.bval)

\* C4: after a SUB tick, the value stored in a is (a - b) mod 65536 and o is
\* true exactly when a < b.
C4_SubBorrow ==
    Ticked(SUB) /\ ~last.fault =>
        /\ last.fval = Wrap(last.aval - last.bval)
        /\ o = (last.aval < last.bval)

\* C5: a DIV tick whose b is 0 does not fault, stores 0 in a and leaves o
\* true.
C5_DivByZero ==
    Ticked(DIV) /\ last.bval = 0 => ~last.fault /\ last.fval = 0 /\ o

\* C6: a MOD tick whose b is 0 does not fault and stores 0 in a.
C6_ModByZero ==
    Ticked(MOD) /\ last.bval = 0 => ~last.fault /\ last.fval = 0

\* C7: an IFE tick writes no register and no memory word, and leaves pc one
\* past the instruction when a = b and two past it when a # b; so the tick
\* after it fetches the word that follows the IFE exactly when a = b.
C7_IfeSkipsOne ==
    [][/\ (last'.call = "tick" /\ last'.op = IFE) =>
              /\ registers' = registers
              /\ memory' = memory
              /\ ~last'.fault =>
                     pc' = Wrap(last'.pcres + 1
                                + (IF last'.aval # last'.bval THEN 1 ELSE 0))
       /\ (Ticked(IFE) /\ ~last.fault /\ last'.call = "tick") =>
              ((last'.pc0 = Wrap(last.pcres + 1)) <=> (last.aval = last.bval))]_vars

\* C7 witness: an IFE tick that read a # b and stepped over the next word.
C7_Witness ==
    /\ Ticked(IFE)
    /\ ~last.fault
    /\ last.aval # last.bval
    /\ pc = Wrap(last.pcres + 2)

\* C8: an IFN, IFG or IFB tick does not fault, stores nothing, and advances
\* pc once more exactly when a = b (IFN), a <= b (IFG), (a & b) = 0 (IFB).
C8_IfnIfgIfb ==
    Applied /\ last.op \in {IFN, IFG, IFB} =>
        /\ ~last.fault
        /\ last.fval = None
        /\ pc = Wrap(last.pcres + 1
                     + (IF \/ last.op = IFN /\ last.aval = last.bval
                           \/ last.op = IFG /\ last.aval <= last.bval
                           \/ last.op = IFB /\ BitAnd(last.aval, last.bval) = 0
                        THEN 1 ELSE 0))

\* C9: a write of v through PUSH decrements sp and then stores v at sp; a
\* read through POP returns the word at sp and then increments sp; so the
\* read that follows the write returns v and leaves sp as before the write.
C9_PushPopRoundTrip ==
    [][/\ (last'.call = "setval" /\ last'.vc = PUSH) =>
              /\ ~last'.fault
              /\ sp' = Wrap(sp - 1)
              /\ MemRead(memory', sp') = last'.f
       /\ (last'.call = "getval" /\ last'.vc = POP) =>
              /\ ~last'.fault
              /\ last'.ret = MemRead(memory, sp)
              /\ sp' = Wrap(sp + 1)
       /\ (/\ last.call = "setval" /\ last.vc = PUSH
           /\ last'.call = "getval" /\ last'.vc = POP) =>
              /\ last'.ret = last.f
              /\ sp' = last.sp0]_vars

\* C9 witness: on a fresh CPU, 65535 written through PUSH and read back
\* through POP, sp having wrapped from 0 to 65535 and back.
C9_Witness ==
    /\ last.call = "getval"
    /\ last.vc = POP
    /\ calls = 2
    /\ last.ret = 65535
    /\ last.sp0 = 65535
    /\ sp = 0
    /\ MemRead(memory, 65535) = 65535

\* C10: a read through value code 31 advances pc by 1 mod 65536 and returns
\* the word at the new pc; a write through it changes nothing.
C10_NextWordLiteral ==
    [][/\ (last'.call = "getval" /\ last'.vc = MEM_LIT) =>
              /\ ~last'.fault
              /\ pc' = Wrap(pc + 1)
              /\ last'.ret = MemRead(memory, pc')
              /\ memory' = memory
       /\ (last'.call = "setval" /\ last'.vc = MEM_LIT) =>
              /\ ~last'.fault
              /\ Self' = Self]_vars

\* C10 witness: a read through value code 31 that returned a stored word,
\* pc having wrapped from 65535 to 0.
C10_Witness ==
    /\ last.call = "getval"
    /\ last.vc = MEM_LIT
    /\ last.pc0 = 65535
    /\ pc = 0
    /\ last.ret = 65535

\* C11: in every state reached from a fresh CPU by ticks, faulting or not,
\* every memory word, every register, pc and sp is in 0..65535.
C11_SixteenBit ==
    /\ \A addr \in DOMAIN memory : addr \in Word /\ memory[addr] \in Word
    /\ \A r \in DOMAIN registers : registers[r] \in Word
    /\ pc \in Word
    /\ sp \in Word

\* C11 witness: an ADD tick whose sum passed 65535 and was stored.
C11_Witness ==
    /\ Ticked(ADD)
    /\ ~last.fault
    /\ last.aval + last.bval > _MAX_VAL
    /\ registers[0] = Wrap(last.aval + last.bval)

\* C12: a tick that ends in a fault leaves memory, registers, pc, sp and o
\* as they were before it.
C12_FaultLeavesState ==
    [][(last'.call = "tick" /\ last'.fault) => Self' = Self]_vars

\* C13: with several instances ticked in any interleaving, a tick of one
\* instance leaves memory, registers, pc, sp and o of every other instance
\* as they were.
C13_InstancesApart ==
    [][\A i \in Instances, ver \in PythonVersions :
           DriverTick(i, ver) =>
               \A j \in Instances \ {i} :
                   View(cpus'[j], heap') = View(cpus[j], heap)]_vars

\* C13 witness: two instances loaded with SET [next word + A], A and the
\* next word 1; the first has ticked, which rewrote its word at 0, the second
\* still holds what was loaded.
C13_Witness ==
    /\ ticks = 1
    /\ View(cpus[1], heap).pc = 3
    /\ View(cpus[1], heap).memory = MemWrite(MemWrite(Buffer, 0, 1), 1, 1)
    /\ View(cpus[2], heap).pc = 0
    /\ View(cpus[2], heap).memory = MemWrite(MemWrite(Buffer, 0, Encode(SET, 1, 0)), 1, 1)

\* C14: the value codes a tick on a word w with non-zero opcode passes to the
\* resolver are (w >> 4) & 63 for a and (w >> 10) & 63 for b, both in 0..63.
C14_ValueCodes ==
    [][(last'.call = "tick" /\ last'.op # NOP) =>
           LET w == MemRead(memory, pc)
           IN  /\ last'.a = (w \div 16) % 64
               /\ last'.b = (w \div 1024) % 64
               /\ last'.a \in 0..63
               /\ last'.b \in 0..63]_vars

\* C15: _getval of any value code in 0..63, in any CPU state, returns a
\* 16-bit value without fault; codes 8..15 return memory[registers[code - 8]]
\* and codes 32..63 return code - 32.
C15_GetvalTotal ==
    [][(last'.call = "getval" /\ last'.vc \in 0..63) =>
           /\ ~last'.fault
           /\ last'.ret \in Word
           /\ (last'.vc \in 8..15 =>
                   last'.ret = MemRead(memory, registers[last'.vc - 8]))
           /\ (last'.vc \in 32..63 => last'.ret = last'.vc - 32)]_vars

\* The value codes that consume the word after the instruction.
ConsumesNextWord == (16..23) \cup {MEM, MEM_LIT}

\* C16: after a tick that writes back, whose a code is in 16..23 or 30 and
\* whose b code consumes no word, pc is (pc before + 2) mod 65536.
C16_NextWordOnce ==
    (/\ last.call = "tick"
     /\ ~last.fault
     /\ last.fval # None
     /\ last.a \in (16..23) \cup {MEM}
     /\ last.b \notin ConsumesNextWord) => pc = Wrap(last.pc0 + 2)

\* C17: a tick that writes back writes the location operand a was read
\* from: the register of a code 0..7, or for a code 16..23 the memory word at
\* register + next word, the next word being the one at pc + 1, consumed once.
C17_WritesWhereRead ==
    [][(last'.call = "tick" /\ ~last'.fault /\ last'.fval # None) =>
           /\ (last'.a \in 0..7 =>
                   /\ registers' = [registers EXCEPT ![last'.a] = last'.fval]
                   /\ memory' = memory)
           /\ (last'.a \in 16..23 =>
                   /\ memory' = MemWrite(memory,
                                    Wrap(registers[last'.a - 16]
                                             + MemRead(memory, Wrap(pc + 1))),
                                    last'.fval)
                   /\ registers' = registers
                   /\ pc' = Wrap(pc + 2))]_vars

\* C18: a tick of SET, AND, BOR, XOR, IFE, IFN, IFG or IFB leaves o as it
\* was, unless operand a is the O location being written.
C18_FlagKept ==
    [][(/\ last'.call = "tick"
        /\ ~last'.fault
        /\ last'.op \in {SET, AND, BOR, XOR, IFE, IFN, IFG, IFB}
        /\ last'.a # O) => o' = o]_vars

\* What a value code that consumes the next word nw reads in the CPU c.
NextWordValue(c, code, nw) ==
    IF code = MEM_LIT THEN nw
    ELSE IF code = MEM THEN MemRead(c.memory, nw)
    ELSE MemRead(c.memory, Wrap(c.registers[code - 16] + nw))

\* C19: in a tick on a word whose two operand fields both consume a next
\* word, a is read with the word at pc + 1 and b with the word at pc + 2,
\* both before the opcode is applied.
C19_OperandOrder ==
    [][LET w  == MemRead(memory, pc)
           fa == (w \div 16) % 64
           fb == (w \div 1024) % 64
       IN  (/\ last'.call = "tick"
            /\ last'.op # NOP
            /\ fa \in ConsumesNextWord
            /\ fb \in ConsumesNextWord) =>
               /\ last'.aval = NextWordValue(Self, fa, MemRead(memory, Wrap(pc + 1)))
               /\ last'.bval = NextWordValue(Self, fb, MemRead(memory, Wrap(pc + 2)))]_vars

====
